---- MODULE Spec2Model ----
(***************************************************************************)
(* Model of the job-proposal drafting tool: the LLM client layer           *)
(* (src/llm_clients.py) and the interactive shell (src/app.py).            *)
(*                                                                         *)
(* Text is a sequence of one-character strings, so that trimming,          *)
(* searching, splitting and truncation are computed character by           *)
(* character as the Python code computes them.                             *)
(***************************************************************************)
EXTENDS Integers, Sequences, FiniteSets, TLC

VARIABLES
    \* the pure functions under check: the stage, the input, the result
    phase, arg, res,
    \* the three text areas
    job_text, candidate_text, past_examples,
    \* the sidebar and the process environment
    provider_choice, slider_temperature, ollama_base_url, ollama_model, os_environ,
    \* st.session_state
    last_raw, last_obj, last_provider_name,
    \* the run of the script: where it is, its locals, the calls of complete
    \* it has made and what its output column shows
    pc, cur_client, raw, repaired, cur_obj, calls, output

fnVars == <<phase, arg, res>>

vars ==
    <<phase, arg, res, job_text, candidate_text, past_examples, provider_choice, slider_temperature,
      ollama_base_url, ollama_model, os_environ, last_raw, last_obj, last_provider_name,
      pc, cur_client, raw, repaired, cur_obj, calls, output>>

(***************************************************************************)
(* Python str primitives                                                   *)
(***************************************************************************)

\* characters str.strip() and the regex class \s treat as whitespace
Whitespace == {" ", "\n", "\t", "\r"}

\* characters str.splitlines() treats as line boundaries
LineBreaks == {"\n", "\r"}

SetMin(S) == CHOOSE x \in S : \A y \in S : x <= y

SetMax(S) == CHOOSE x \in S : \A y \in S : x >= y

\* s[:n]
Take(s, n) == SubSeq(s, 1, IF n < Len(s) THEN n ELSE Len(s))

\* s[n:]  (n characters dropped)
Drop(s, n) == SubSeq(s, n + 1, Len(s))

\* s.strip()
Strip(s) ==
    LET keep == {i \in 1..Len(s) : s[i] \notin Whitespace}
    IN  IF keep = {} THEN <<>> ELSE SubSeq(s, SetMin(keep), SetMax(keep))

\* s.startswith(p)
StartsWith(s, p) == Len(s) >= Len(p) /\ SubSeq(s, 1, Len(p)) = p

\* s.endswith(p)
EndsWith(s, p) == Len(s) >= Len(p) /\ SubSeq(s, Len(s) - Len(p) + 1, Len(s)) = p

\* the positions at which p occurs in s (1-based)
Occurrences(s, p) ==
    {i \in 1..(Len(s) - Len(p) + 1) : SubSeq(s, i, i + Len(p) - 1) = p}

\* p in s
Contains(s, p) == Occurrences(s, p) # {}

\* s.find(p), 1-based, 0 when absent (Python: 0-based, -1 when absent)
Find(s, p) == IF Contains(s, p) THEN SetMin(Occurrences(s, p)) ELSE 0

\* s.rfind(p), 1-based, 0 when absent
RFind(s, p) == IF Contains(s, p) THEN SetMax(Occurrences(s, p)) ELSE 0

\* s.split(sep, 1)[0]
SplitBefore(s, sep) ==
    IF Contains(s, sep) THEN SubSeq(s, 1, Find(s, sep) - 1) ELSE s

\* s.split(sep, 1)[1], used only where sep occurs in s
SplitAfter(s, sep) == Drop(s, Find(s, sep) + Len(sep) - 1)

RECURSIVE Concat(_)
\* "".join(parts)
Concat(parts) ==
    IF parts = <<>> THEN <<>> ELSE Head(parts) \o Concat(Tail(parts))

\* s * n
Repeat(s, n) == [i \in 1..(n * Len(s)) |-> s[((i - 1) % Len(s)) + 1]]

\* the positions of s, in order
Positions(s) == [i \in 1..Len(s) |-> i]

(***************************************************************************)
(* _extract_json (src/llm_clients.py)                                      *)
(***************************************************************************)

\* the backtick character (the lexer admits no backtick in a string literal)
BackTick == "backtick"

Fence == <<BackTick, BackTick, BackTick>>

FenceJsonLower == Fence \o <<"j", "s", "o", "n">>

FenceJsonUpper == Fence \o <<"J", "S", "O", "N">>

\* the loops fence variants, in the order the loop tries them
FenceVariants == <<FenceJsonLower, FenceJsonUpper, Fence>>

IsObjectText(s) == StartsWith(s, <<"{">>) /\ EndsWith(s, <<"}">>)

\* body of one loop iteration: the trimmed text between the fence and the
\* next fence marker
FenceBody(s, fence) == Strip(SplitBefore(SplitAfter(s, fence), Fence))

\* the fallback after the loop: first "{" to last "}"
BraceSpan(s) ==
    LET start == Find(s, <<"{">>)
        end   == RFind(s, <<"}">>)
    IN  IF start # 0 /\ end # 0 /\ end > start
        THEN Strip(SubSeq(s, start, end))
        ELSE s

_extract_json(text) ==
    LET s    == Strip(text)
        hits == {i \in 1..Len(FenceVariants) :
                    /\ Contains(s, FenceVariants[i])
                    /\ IsObjectText(FenceBody(s, FenceVariants[i]))}
    IN  IF IsObjectText(s) THEN s
        ELSE IF Contains(s, Fence) /\ hits # {}
             THEN FenceBody(s, FenceVariants[SetMin(hits)])
             ELSE BraceSpan(s)

\* a text wrapped in a json fenced block
FencedBlock(t) == FenceJsonLower \o <<"\n">> \o t \o <<"\n">> \o Fence

(***************************************************************************)
(* _compact (src/app.py) and its use by render_result for quotes           *)
(***************************************************************************)

\* the character U+2026 (the lexer admits no such literal)
Ellipsis == "ellipsis"

\* re.sub(r"\s+", " ", s): of every run of whitespace the first character
\* stays, as one space
CollapseWhitespace(s) ==
    LET kept == SelectSeq(Positions(s),
                          LAMBDA i : s[i] \notin Whitespace \/ i = 1 \/ s[i - 1] \notin Whitespace)
    IN  [k \in 1..Len(kept) |-> IF s[kept[k]] \in Whitespace THEN " " ELSE s[kept[k]]]

\* the off-by-one slip: limit characters kept before the marker
CompactKeepsLimit(text, limit) ==
    LET t == CollapseWhitespace(Strip(text))
    IN  IF Len(t) <= limit THEN t ELSE Take(t, limit) \o <<Ellipsis>>

_compact(text, limit) ==
    LET t == CollapseWhitespace(Strip(text))
    IN  IF Len(t) <= limit THEN t ELSE Take(t, limit - 1) \o <<Ellipsis>>

\* default of the limit parameter, which render_result does not override
CompactLimit == 60

\* how render_result shows one quote
RenderQuote(quote) == _compact(quote, CompactLimit)

(***************************************************************************)
(* JSON values.  A value is a record: type is the Python type json.loads   *)
(* gives it, members maps the keys of a dict to their values, text is the  *)
(* content of a str.  A key is a text like any other; the six schema keys  *)
(* and the other fixed keys are each written as one symbol.  The items of  *)
(* a list and the digits of a number are not modelled.                     *)
(***************************************************************************)

JStr(text) == [type |-> "str", text |-> text, members |-> <<>>]

JList == [type |-> "list", text |-> <<>>, members |-> <<>>]

JNum == [type |-> "num", text |-> <<>>, members |-> <<>>]

JNull == [type |-> "null", text |-> <<>>, members |-> <<>>]

JDict(members) == [type |-> "dict", text |-> <<>>, members |-> members]

K_metadata == <<"metadata">>

K_evidence_points == <<"evidence_points">>

K_proposal_short == <<"proposal_short">>

K_proposal_long == <<"proposal_long">>

K_checklist == <<"checklist">>

K_confirm_questions == <<"confirm_questions">>

K_debug == <<"debug">>

K_generated_at == <<"generated_at">>

K_provider == <<"provider">>

K_match_score == <<"match_score">>

K_llm == <<"llm">>

K_job_hint == <<"job_hint">>

\* k in obj
HasKey(obj, k) == k \in DOMAIN obj.members

(***************************************************************************)
(* validate_result (src/app.py)                                            *)
(***************************************************************************)

\* the key list of the first loop
RequiredKeys ==
    <<K_metadata, K_evidence_points, K_proposal_short, K_proposal_long,
      K_checklist, K_confirm_questions>>

MissingKey(k) == [kind |-> "missing_key", key |-> k]

NotAList(k) == [kind |-> "not_a_list", key |-> k]

RECURSIVE MissingKeys(_, _)
\* the first loop over the remaining keys
MissingKeys(obj, keys) ==
    IF keys = <<>> THEN <<>>
    ELSE (IF HasKey(obj, Head(keys)) THEN <<>> ELSE <<MissingKey(Head(keys))>>)
         \o MissingKeys(obj, Tail(keys))

\* one of the three isinstance checks
ListCheck(obj, k) ==
    IF HasKey(obj, k) /\ obj.members[k].type # "list"
    THEN <<NotAList(k)>> ELSE <<>>

\* the slip of leaving out the check of checklist
ValidateWithoutChecklistShape(obj) ==
    MissingKeys(obj, RequiredKeys)
        \o ListCheck(obj, K_evidence_points)
        \o ListCheck(obj, K_confirm_questions)

validate_result(obj) ==
    MissingKeys(obj, RequiredKeys)
        \o ListCheck(obj, K_evidence_points)
        \o ListCheck(obj, K_checklist)
        \o ListCheck(obj, K_confirm_questions)

(***************************************************************************)
(* JSON text: json.dumps as _safe_json_dumps calls it, and json.loads      *)
(***************************************************************************)

\* the order in which a dict is written; the dicts of the model are built
\* with their keys in this order
KeyOrder ==
    <<K_metadata, K_generated_at, K_match_score, K_llm, K_provider,
      K_evidence_points, K_proposal_short, K_proposal_long, K_checklist,
      K_confirm_questions, K_debug, K_job_hint>>

Quote == "\""

Backslash == "\\"

\* the escape json.dumps writes for one character of a string
EscapeChar(c) ==
    CASE c = Quote     -> <<Backslash, Quote>>
      [] c = Backslash -> <<Backslash, Backslash>>
      [] c = "\n"      -> <<Backslash, "n">>
      [] c = "\t"      -> <<Backslash, "t">>
      [] c = "\r"      -> <<Backslash, "r">>
      [] OTHER         -> <<c>>

RECURSIVE EscapeText(_)
\* the escapes of the characters of s, one after the other (by halves)
EscapeText(s) ==
    IF s = <<>> THEN <<>>
    ELSE IF Len(s) = 1 THEN EscapeChar(s[1])
    ELSE EscapeText(SubSeq(s, 1, Len(s) \div 2))
             \o EscapeText(SubSeq(s, Len(s) \div 2 + 1, Len(s)))

\* the slip of writing a string between quotes as it is
DumpStringUnescaped(s) == <<Quote>> \o s \o <<Quote>>

DumpString(s) == <<Quote>> \o EscapeText(s) \o <<Quote>>

Indent(depth) == Repeat(<<" ">>, 2 * depth)

RECURSIVE JsonDumps(_, _)
RECURSIVE DumpMembers(_, _, _)
\* the members of a dict at the given depth, keys taken in order
DumpMembers(v, keys, depth) ==
    IF keys = <<>> THEN <<>>
    ELSE <<"\n">> \o Indent(depth) \o DumpString(Head(keys)) \o <<":", " ">>
             \o JsonDumps(v.members[Head(keys)], depth)
             \o (IF Len(keys) > 1 THEN <<",">> ELSE <<>>)
             \o DumpMembers(v, Tail(keys), depth)

\* json.dumps(v, ensure_ascii=False, indent=2) for a value nested depth deep
JsonDumps(v, depth) ==
    CASE v.type = "str"  -> DumpString(v.text)
      [] v.type = "list" -> <<"[", "]">>
      [] v.type = "num"  -> <<"0">>
      [] v.type = "null" -> <<"n", "u", "l", "l">>
      [] v.type = "dict" ->
            LET keys == SelectSeq(KeyOrder, LAMBDA k : k \in DOMAIN v.members)
            IN  IF keys = <<>> THEN <<"{", "}">>
                ELSE <<"{">> \o DumpMembers(v, keys, depth + 1)
                         \o <<"\n">> \o Indent(depth) \o <<"}">>

_safe_json_dumps(obj) == JsonDumps(obj, 0)

\* result of one parsing step: whether it succeeded, the value read and the
\* position after it
ParseFail == [ok |-> FALSE, val |-> JNull, next |-> 0]

ParseOk(v, n) == [ok |-> TRUE, val |-> v, next |-> n]

\* the least position in lo..hi that satisfies P, and 0 if there is none
FirstIn(lo, hi, P(_)) ==
    IF \E c \in lo..hi : P(c)
    THEN CHOOSE c \in lo..hi : P(c) /\ \A d \in lo..(c - 1) : ~P(d)
    ELSE 0

\* the first position from i on that holds no whitespace (Len + 1 if none)
SkipWs(s, i) ==
    LET j == FirstIn(i, Len(s), LAMBDA c : s[c] \notin Whitespace)
    IN  IF j = 0 THEN Len(s) + 1 ELSE j

\* the number of backslashes right before position i
BackslashRun(s, i) ==
    IF i = 1 \/ s[i - 1] # Backslash THEN 0
    ELSE LET run == FirstIn(1, i - 1, LAMBDA k : k = i - 1 \/ s[i - 1 - k] # Backslash)
         IN  run

\* the character at i is the second character of an escape
IsEscaped(s, i) == BackslashRun(s, i) % 2 = 1

\* the character an escape stands for
Unescape(c) ==
    CASE c = "n" -> "\n"
      [] c = "t" -> "\t"
      [] c = "r" -> "\r"
      [] OTHER   -> c

\* a string literal from the position after its opening quote: it ends at
\* the first quote that is not escaped; every escape in it is one json.loads
\* knows and no control character stands in it unescaped
ScanString(s, j, acc) ==
    LET close == FirstIn(j, Len(s), LAMBDA c : s[c] = Quote /\ ~IsEscaped(s, c))
    IN  IF close = 0 THEN ParseFail
        ELSE LET body  == [k \in 1..(close - j) |-> j + k - 1]
                 valid == \A i \in j..(close - 1) :
                              IF IsEscaped(s, i)
                              THEN s[i] \in {Quote, Backslash, "n", "t", "r"}
                              ELSE s[i] \notin {"\n", "\t", "\r"}
                 kept  == SelectSeq(body, LAMBDA i : ~(s[i] = Backslash /\ ~IsEscaped(s, i)))
             IN  IF ~valid THEN ParseFail
                 ELSE ParseOk(JStr(acc \o [k \in 1..Len(kept) |->
                                              IF IsEscaped(s, kept[k])
                                              THEN Unescape(s[kept[k]]) ELSE s[kept[k]]]),
                              close + 1)

RECURSIVE ParseValue(_, _)
RECURSIVE ParseMembers(_, _, _, _)
\* the members of an object from position i0 on; first says that nothing
\* but the opening brace was read so far
ParseMembers(s, i0, acc, first) ==
    LET i == SkipWs(s, i0)
    IN  IF i > Len(s) THEN ParseFail
        ELSE IF s[i] = "}" THEN (IF first THEN ParseOk(JDict(acc), i + 1) ELSE ParseFail)
        ELSE IF s[i] # Quote THEN ParseFail
        ELSE LET key == ScanString(s, i + 1, <<>>)
             IN  IF ~key.ok THEN ParseFail
                 ELSE LET c == SkipWs(s, key.next)
                      IN  IF c > Len(s) \/ s[c] # ":" THEN ParseFail
                          ELSE LET v == ParseValue(s, c + 1)
                               IN  IF ~v.ok THEN ParseFail
                                   ELSE LET e    == SkipWs(s, v.next)
                                            acc2 == (key.val.text :> v.val) @@ acc
                                        IN  IF e > Len(s) THEN ParseFail
                                            ELSE IF s[e] = "," THEN ParseMembers(s, e + 1, acc2, FALSE)
                                            ELSE IF s[e] = "}" THEN ParseOk(JDict(acc2), e + 1)
                                            ELSE ParseFail

\* one JSON value from position i0 on
ParseValue(s, i0) ==
    LET i == SkipWs(s, i0)
    IN  IF i > Len(s) THEN ParseFail
        ELSE CASE s[i] = "{"   -> ParseMembers(s, i + 1, <<>>, TRUE)
               [] s[i] = "["   -> LET j == SkipWs(s, i + 1)
                                  IN  IF j <= Len(s) /\ s[j] = "]"
                                      THEN ParseOk(JList, j + 1) ELSE ParseFail
               [] s[i] = Quote -> ScanString(s, i + 1, <<>>)
               [] s[i] = "0"   -> ParseOk(JNum, i + 1)
               [] s[i] = "n"   -> IF SubSeq(s, i, i + 3) = <<"n", "u", "l", "l">>
                                  THEN ParseOk(JNull, i + 4) ELSE ParseFail
               [] OTHER        -> ParseFail

\* json.loads(s): one value and nothing but whitespace after it
WholeText(s, r) == IF r.ok /\ SkipWs(s, r.next) > Len(s) THEN r ELSE ParseFail

JsonLoads(s) == WholeText(s, ParseValue(s, 1))

(***************************************************************************)
(* parse_llm_json (src/llm_clients.py)                                     *)
(***************************************************************************)

\* the value json.loads returns, or the LLMError raised in place of its error
ValueOrLLMError(r) ==
    IF r.ok THEN [kind |-> "ok", obj |-> r.val]
    ELSE [kind |-> "LLMError", obj |-> JNull]

parse_llm_json(text) == ValueOrLLMError(JsonLoads(_extract_json(text)))

(***************************************************************************)
(* MockClient (src/llm_clients.py)                                         *)
(***************************************************************************)

ChatMessage(role, content) == [role |-> role, content |-> content]

Roles == {"system", "user", "assistant"}

RECURSIVE Join(_, _)
\* sep.join(parts)
Join(sep, parts) ==
    IF parts = <<>> THEN <<>>
    ELSE IF Len(parts) = 1 THEN Head(parts)
    ELSE Head(parts) \o sep \o Join(sep, Tail(parts))

RECURSIVE SplitLines(_)
\* s.splitlines(): no empty last line, "\r\n" is one boundary
SplitLines(s) ==
    LET breaks == {i \in 1..Len(s) : s[i] \in LineBreaks}
    IN  IF s = <<>> THEN <<>>
        ELSE IF breaks = {} THEN <<s>>
        ELSE LET b    == SetMin(breaks)
                 skip == IF s[b] = "\r" /\ b < Len(s) /\ s[b + 1] = "\n" THEN b + 1 ELSE b
             IN  <<SubSeq(s, 1, b - 1)>> \o SplitLines(Drop(s, skip))

RECURSIVE MapStrip(_)
MapStrip(lines) ==
    IF lines = <<>> THEN <<>> ELSE <<Strip(Head(lines))>> \o MapStrip(Tail(lines))

\* the contents of the messages whose role is user, in order
UserContents(messages) ==
    LET users == SelectSeq(messages, LAMBDA m : m.role = "user")
    IN  [i \in 1..Len(users) |-> users[i].content]

\* [ln.strip() for ln in joined.splitlines() if ln.strip()]
JobLines(joined) ==
    SelectSeq(MapStrip(SplitLines(joined)), LAMBDA ln : ln # <<>>)

\* the slice job_lines[:3]
HintLines == 3

\* the slice [:120]
HintLimit == 120

\* the slip of cutting the hint one character late
MockJobHintCutsLate(messages) ==
    LET joined == Join(<<"\n">>, UserContents(messages))
    IN  Take(Join(<<" ", "/", " ">>, Take(JobLines(joined), HintLines)), HintLimit + 1)

\* job_hint
MockJobHint(messages) ==
    LET joined == Join(<<"\n">>, UserContents(messages))
    IN  Take(Join(<<" ", "/", " ">>, Take(JobLines(joined), HintLines)), HintLimit)

MockName == <<"m", "o", "c", "k">>

\* the object the mock serialises: its fixed prose is written as one symbol
\* per text, the date it embeds twice is the argument now
MockObject(messages, now) ==
    JDict(
        (K_metadata :> JDict((K_generated_at :> JStr(now))
                             @@ (K_match_score :> JNum)
                             @@ (K_llm :> JStr(MockName))))
        @@ (K_evidence_points :> JList)
        @@ (K_proposal_short :> JStr(<<"short proposal">>))
        @@ (K_proposal_long :> JStr(<<"long proposal, ">> \o now \o <<" week">>))
        @@ (K_checklist :> JList)
        @@ (K_confirm_questions :> JList)
        @@ (K_debug :> JDict(K_job_hint :> JStr(MockJobHint(messages)))))

\* MockClient.complete; now is what time.strftime("%Y-%m-%d") returns
MockClient_complete(messages, temperature, now) ==
    _safe_json_dumps(MockObject(messages, now))

(***************************************************************************)
(* _env, OllamaClient.__init__, MockClient.__init__ and build_client       *)
(* (src/llm_clients.py)                                                    *)
(***************************************************************************)

\* an optional value: None is the empty sequence, a value x is <<x>>
None == <<>>

Some(x) == <<x>>

UpperLetters ==
    <<"A", "B", "C", "D", "E", "F", "G", "H", "I", "J", "K", "L", "M", "N", "O",
      "P", "Q", "R", "S", "T", "U", "V", "W", "X", "Y", "Z">>

LowerLetters ==
    <<"a", "b", "c", "d", "e", "f", "g", "h", "i", "j", "k", "l", "m", "n", "o",
      "p", "q", "r", "s", "t", "u", "v", "w", "x", "y", "z">>

LowerChar(c) ==
    IF \E i \in 1..Len(UpperLetters) : UpperLetters[i] = c
    THEN LowerLetters[CHOOSE i \in 1..Len(UpperLetters) : UpperLetters[i] = c]
    ELSE c

\* s.lower()
Lower(s) == [i \in 1..Len(s) |-> LowerChar(s[i])]

\* s.rstrip("/")
RStripSlash(s) ==
    LET keep == {i \in 1..Len(s) : s[i] # "/"}
    IN  IF keep = {} THEN <<>> ELSE SubSeq(s, 1, SetMax(keep))

DefaultModel == <<"l", "l", "a", "m", "a", "3", ".", "1">>

DefaultBaseUrl ==
    <<"h", "t", "t", "p", ":", "/", "/", "l", "o", "c", "a", "l", "h", "o", "s", "t",
      ":", "1", "1", "4", "3", "4">>

OllamaWord == <<"o", "l", "l", "a", "m", "a">>

\* _env(name, default); environ maps a variable name to its optional value
_env(environ, name, default) ==
    IF environ[name] = None \/ Strip(environ[name][1]) = <<>> THEN default ELSE environ[name][1]

\* x or y, for texts
OrText(x, y) == IF x = <<>> THEN y ELSE x

NoClient == [class |-> "none", name |-> <<>>, model |-> <<>>, base_url |-> <<>>]

\* OllamaClient.__init__
OllamaClient(model, base_url) ==
    [class |-> "OllamaClient", name |-> OllamaWord \o <<":">> \o model,
     model |-> model, base_url |-> RStripSlash(base_url)]

\* MockClient.__init__
MockClient ==
    [class |-> "MockClient", name |-> MockName, model |-> <<>>, base_url |-> <<>>]

\* the slip of comparing the name without lowercasing it
BuildClientCaseSensitive(provider0, environ) ==
    LET provider == Strip(provider0)
    IN  IF provider = OllamaWord
        THEN [kind |-> "client",
              client |-> OllamaClient(
                  OrText(_env(environ, "OLLAMA_MODEL", DefaultModel), DefaultModel),
                  OrText(_env(environ, "OLLAMA_BASE_URL", DefaultBaseUrl), DefaultBaseUrl))]
        ELSE IF provider = MockName
        THEN [kind |-> "client", client |-> MockClient]
        ELSE [kind |-> "ValueError", client |-> NoClient]

\* build_client(provider) in the environment environ: the client it returns
\* or the error it raises
build_client(provider0, environ) ==
    LET provider == Lower(Strip(provider0))
    IN  IF provider = OllamaWord
        THEN [kind |-> "client",
              client |-> OllamaClient(
                  OrText(_env(environ, "OLLAMA_MODEL", DefaultModel), DefaultModel),
                  OrText(_env(environ, "OLLAMA_BASE_URL", DefaultBaseUrl), DefaultBaseUrl))]
        ELSE IF provider = MockName
        THEN [kind |-> "client", client |-> MockClient]
        ELSE [kind |-> "ValueError", client |-> NoClient]

(***************************************************************************)
(* OllamaClient.complete (src/llm_clients.py).  What the server does is an *)
(* input: requests.post either raises or returns a response with a status, *)
(* an optional Content-Type header and a body.                             *)
(***************************************************************************)

\* a body: text that is no JSON, a JSON list, or a JSON object.  An object
\* in the native format is {"message": m}; in the OpenAI format it is
\* {"choices": c}, where a list c with items has the first item
\* {"message": m}.  The member m is absent, null, a string or an object
\* {"content": x}, and x is absent, null, a number or the string text.
Body(format, choices, message, content, text) ==
    [format |-> format, choices |-> choices, message |-> message,
     content |-> content, text |-> text]

TransportError == [raises |-> TRUE, status |-> 0, content_type |-> None, body |-> Body("not_json", "absent", "absent", "absent", <<>>)]

Response(status, content_type, body) ==
    [raises |-> FALSE, status |-> status, content_type |-> content_type, body |-> body]

ApplicationJson ==
    <<"a", "p", "p", "l", "i", "c", "a", "t", "i", "o", "n", "/", "j", "s", "o", "n">>

\* "application/json" not in (headers.get("Content-Type") or "").lower()
NotJsonContentType(content_type) ==
    ~Contains(Lower(IF content_type = None THEN <<>> ELSE content_type[1]), ApplicationJson)

\* raise_for_status() raises
IsErrorStatus(status) == status >= 400 /\ status < 600

Return(text) == [kind |-> "return", text |-> text]

Raise(kind) == [kind |-> kind, text |-> <<>>]

\* the message member of an object in the native format, as data.get sees it
NativeMessage(body) == IF body.format = "native" THEN body.message ELSE "absent"

\* (data.get("message", {}) or {}).get("content", "").strip()
NativeContent(body) ==
    IF body.format \in {"list"} THEN Raise("AttributeError")
    ELSE CASE NativeMessage(body) \in {"absent", "null"} -> Return(<<>>)
           [] NativeMessage(body) = "str" -> Raise("AttributeError")
           [] NativeMessage(body) = "dict" ->
                 CASE body.content = "absent" -> Return(<<>>)
                   [] body.content \in {"null", "num"} -> Raise("AttributeError")
                   [] body.content = "str" -> Return(Strip(body.text))

\* the message member of the first choice, as .get("message") sees it
FirstChoiceMessage(body) ==
    IF body.format = "openai" /\ body.choices = "items" THEN body.message ELSE "absent"

\* (((data2.get("choices") or [{}])[0].get("message") or {}).get("content") or "").strip()
OpenAIContent(body) ==
    IF body.format \in {"list"} THEN Raise("AttributeError")
    ELSE CASE FirstChoiceMessage(body) \in {"absent", "null"} -> Return(<<>>)
           [] FirstChoiceMessage(body) = "str" -> Raise("AttributeError")
           [] FirstChoiceMessage(body) = "dict" ->
                 CASE body.content \in {"absent", "null"} -> Return(<<>>)
                   [] body.content = "num" -> Raise("AttributeError")
                   [] body.content = "str" -> Return(Strip(body.text))

ApiChatPath == <<"/", "a", "p", "i", "/", "c", "h", "a", "t">>

V1ChatPath ==
    <<"/", "v", "1", "/", "c", "h", "a", "t", "/", "c", "o", "m", "p", "l", "e", "t",
      "i", "o", "n", "s">>

HttpPost(client, path, messages, temperature) ==
    [method |-> "POST", url |-> client.base_url \o path, model |-> client.model,
     messages |-> messages, temperature |-> temperature]

\* the body of the try statement: the requests it sends and how it ends,
\* when the server answers the first request with r and a second with r2
CompleteTry(client, messages, temperature, r, r2) ==
    LET first  == HttpPost(client, ApiChatPath, messages, temperature)
        second == HttpPost(client, V1ChatPath, messages, temperature)
    IN  IF r.raises THEN [requests |-> <<first>>, end |-> Raise("ConnectionError")]
        ELSE IF r.status = 404
        THEN [requests |-> <<first, second>>,
              end |-> IF r2.raises THEN Raise("ConnectionError")
                      ELSE IF IsErrorStatus(r2.status) THEN Raise("HTTPError")
                      ELSE IF NotJsonContentType(r2.content_type) THEN Raise("LLMError")
                      ELSE IF r2.body.format = "not_json" THEN Raise("JSONDecodeError")
                      ELSE OpenAIContent(r2.body)]
        ELSE [requests |-> <<first>>,
              end |-> IF IsErrorStatus(r.status) THEN Raise("HTTPError")
                      ELSE IF NotJsonContentType(r.content_type) THEN Raise("LLMError")
                      ELSE IF r.body.format = "not_json" THEN Raise("JSONDecodeError")
                      ELSE NativeContent(r.body)]

\* OllamaClient.complete: except Exception turns every raise into LLMError
OllamaClient_complete(client, messages, temperature, r, r2) ==
    LET try == CompleteTry(client, messages, temperature, r, r2)
    IN  [requests |-> try.requests,
         end |-> IF try.end.kind = "return" THEN try.end ELSE Raise("LLMError")]


(***************************************************************************)
(* try_ollama_tags (src/app.py).  As for complete, what the server does is *)
(* an input: requests.get raises or returns a response.                    *)
(***************************************************************************)

\* the value of the models or data member of a body: absent, null, a
\* number, or a list of entries
Listing(kind, items) == [kind |-> kind, items |-> items]

NoListing == Listing("absent", <<>>)

\* one entry of a list: a dict with an optional name or id, or a str
Entry(type, label) == [type |-> type, label |-> label]

\* a response body: its text, and what r.json() makes of it
TagsBody(format, models, data, text) ==
    [format |-> format, models |-> models, data |-> data, text |-> text]

TagsTransportError ==
    [raises |-> TRUE, status |-> 0, content_type |-> None,
     body |-> TagsBody("not_json", NoListing, NoListing, <<>>)]

ApiTagsPath == <<"/", "a", "p", "i", "/", "t", "a", "g", "s">>

V1ModelsPath == <<"/", "v", "1", "/", "m", "o", "d", "e", "l", "s">>

\* timeout=8
TagsTimeout == 8

HttpGet(url) == [method |-> "GET", url |-> url, timeout |-> TagsTimeout]

\* requests refuses a URL without a scheme before it sends anything
HasScheme(url) ==
    \/ StartsWith(url, <<"h", "t", "t", "p", ":", "/", "/">>)
    \/ StartsWith(url, <<"h", "t", "t", "p", "s", ":", "/", "/">>)

\* how one step of the function ends: it returns the pair (ok, msg) or
\* raises
TagsReturn(ok, msg) == [kind |-> "return", ok |-> ok, msg |-> msg]

TagsRaise(kind) == [kind |-> kind, ok |-> FALSE, msg |-> <<>>]

\* [:120]
SnippetLimit == 120

\* (r.text or "")[:120].replace("\n", " ")
Snippet(text) ==
    [i \in 1..Len(Take(text, SnippetLimit)) |-> IF text[i] = "\n" THEN " " ELSE text[i]]

\* the message for an answer that is no JSON; its fixed wording is written
\* as one symbol
NotJsonMessage(r) ==
    <<"not JSON: status=", ToString(r.status), ", content-type=">>
        \o Lower(IF r.content_type = None THEN <<>> ELSE r.content_type[1])
        \o <<" / snippet: ">> \o Snippet(r.body.text)

\* models[:8]
MaxListed == 8

EmptyListMessage == <<"(model list was empty)">>

\* the message for the names found
ListingMessage(names) ==
    IF names # <<>>
    THEN Join(<<" ", "/", " ">>, Take(names, MaxListed))
             \o (IF Len(names) > MaxListed THEN <<" ", Ellipsis>> ELSE <<>>)
    ELSE EmptyListMessage

\* m.get(key, "") for each entry, the empty ones dropped
NamesOf(items) ==
    LET labels == [i \in DOMAIN items |->
                      IF items[i].label = None THEN <<>> ELSE items[i].label[1]]
    IN  SelectSeq(labels, LAMBDA n : n # <<>>)

\* lines 275-280 and 283-288: from the parsed body to the pair, given the
\* member the path reads
TagsListing(body, listing) ==
    IF body.format = "not_json" THEN TagsRaise("JSONDecodeError")
    ELSE IF body.format # "dict" THEN TagsRaise("AttributeError")
    ELSE IF listing.kind \in {"absent", "null"} THEN TagsReturn(TRUE, ListingMessage(<<>>))
    ELSE IF listing.kind # "list" THEN TagsRaise("TypeError")
    ELSE IF \E i \in DOMAIN listing.items : listing.items[i].type # "dict"
    THEN TagsRaise("AttributeError")
    ELSE TagsReturn(TRUE, ListingMessage(NamesOf(listing.items)))

\* the body of the try statement: the requests it sends and how it ends,
\* when the server answers the first request with r and a second with r2
TagsTry(base_url, r, r2) ==
    LET first  == HttpGet(RStripSlash(base_url) \o ApiTagsPath)
        second == HttpGet(RStripSlash(base_url) \o V1ModelsPath)
    IN  IF ~HasScheme(first.url) THEN [requests |-> <<>>, end |-> TagsRaise("MissingSchema")]
        ELSE IF r.raises THEN [requests |-> <<first>>, end |-> TagsRaise("ConnectionError")]
        ELSE IF NotJsonContentType(r.content_type)
        THEN [requests |-> <<first>>, end |-> TagsReturn(FALSE, NotJsonMessage(r))]
        ELSE IF r.status = 404
        THEN [requests |-> <<first, second>>,
              end |-> IF r2.raises THEN TagsRaise("ConnectionError")
                      ELSE IF NotJsonContentType(r2.content_type)
                      THEN TagsReturn(FALSE, NotJsonMessage(r2))
                      ELSE IF IsErrorStatus(r2.status) THEN TagsRaise("HTTPError")
                      ELSE TagsListing(r2.body, r2.body.data)]
        ELSE [requests |-> <<first>>,
              end |-> IF IsErrorStatus(r.status) THEN TagsRaise("HTTPError")
                      ELSE TagsListing(r.body, r.body.models)]

\* except Exception as e: return False, str(e); the text of an exception is
\* written as one symbol
CatchAll(t) ==
    [requests |-> t.requests,
     end |-> IF t.end.kind = "return" THEN t.end ELSE TagsReturn(FALSE, <<t.end.kind>>)]

try_ollama_tags(base_url, r, r2) == CatchAll(TagsTry(base_url, r, r2))

(***************************************************************************)
(* The interactive shell: main (src/app.py).  One user action starts one   *)
(* run of the script.  A run that is no generate action handles its button *)
(* and redraws the output column; a generate run is the cycle of lines     *)
(* 481-556, which the model follows from one backend call to the next.     *)
(***************************************************************************)

\* the texts of sample_data, each written as one symbol
SAMPLE_JOB_1 == <<"sample job 1">>

SAMPLE_JOB_2 == <<"sample job 2">>

SAMPLE_CANDIDATE_1 == <<"sample candidate 1">>

SAMPLE_CANDIDATE_2 == <<"sample candidate 2">>

SAMPLE_PAST_PROPOSALS == <<"sample past proposals">>

\* what the user types into the three text areas and the model field
\* a job text of characters that matter to JSON and to the extraction
JobTextOfMarks == <<"}", BackTick, BackTick, BackTick, Quote, Backslash, "{">>

TypedJobTexts == {<<" ", "\n">>, JobTextOfMarks}

TypedCandidateTexts == {<<"\t">>}

TypedPastTexts == {<<>>}

TypedModels == {DefaultModel, <<"m", "1">>}

\* the slider positions the model draws from, in hundredths
SliderValues == {20, 100}

\* _now_iso() during the run, written as one symbol
NowIso == <<"2026-11-03 01:00:00">>

\* time.strftime("%Y-%m-%d") during the run
Today == <<"2026-11-03">>

\* build_prompt: the fixed instructions are written as one symbol each
build_prompt(job, candidate, past) ==
    <<ChatMessage("system", <<"system instructions">>),
      ChatMessage("user",
          <<"user instructions", "\n", "\n", "[job]", "\n">> \o job
              \o <<"\n", "\n", "[candidate]", "\n">> \o candidate
              \o <<"\n", "\n", "[past]", "\n">> \o past \o <<"\n">>)>>

SchemaHint == <<"schema hint">>

\* the messages repair_json_with_llm builds
RepairMessages(raw0, schema_hint) ==
    <<ChatMessage("system", <<"repair instructions">>),
      ChatMessage("user",
          <<"repair request: ">> \o schema_hint \o <<"\n", "\n", "-", "-", "-", "\n">>
              \o raw0 \o <<"\n", "-", "-", "-">>)>>

\* the slip of repairing at the temperature of the session
RepairAtSessionTemperature == slider_temperature

\* the temperature repair_json_with_llm passes
RepairTemperature == 0

\* one call of client.complete: who was called with what, and whether the
\* call is pending, has returned or has raised
Call(c, messages, t) ==
    [client |-> c, messages |-> messages, temperature |-> t, ended |-> "pending"]

\* disabled = not (job_text.strip() and candidate_text.strip())
GenerateDisabledEither(job, candidate) == ~(Strip(job) # <<>> \/ Strip(candidate) # <<>>)

GenerateDisabled(job, candidate) == ~(Strip(job) # <<>> /\ Strip(candidate) # <<>>)

\* the slip of setting the provider only when the model gave none
PostProcessKeepingProvider(o, name, now) ==
    IF o.type # "dict" THEN [kind |-> "AttributeError", obj |-> o]
    ELSE LET meta0 == IF HasKey(o, K_metadata) THEN o.members[K_metadata] ELSE JDict(<<>>)
         IN  IF meta0.type # "dict" THEN [kind |-> "AttributeError", obj |-> o]
             ELSE LET m1 == IF K_generated_at \in DOMAIN meta0.members
                            THEN meta0.members
                            ELSE (K_generated_at :> JStr(now)) @@ meta0.members
                      m2 == m1 @@ (K_provider :> JStr(name))
                  IN  [kind |-> "ok",
                       obj |-> JDict((K_metadata :> JDict(m2)) @@ o.members)]

\* lines 508-510: the parsed value with the metadata the shell knows, or
\* the AttributeError of calling setdefault on what is no dict
PostProcess(o, name, now) ==
    IF o.type # "dict" THEN [kind |-> "AttributeError", obj |-> o]
    ELSE LET meta0 == IF HasKey(o, K_metadata) THEN o.members[K_metadata] ELSE JDict(<<>>)
         IN  IF meta0.type # "dict" THEN [kind |-> "AttributeError", obj |-> o]
             ELSE LET m1 == IF K_generated_at \in DOMAIN meta0.members
                            THEN meta0.members
                            ELSE (K_generated_at :> JStr(now)) @@ meta0.members
                      m2 == (K_provider :> JStr(name)) @@ m1
                  IN  [kind |-> "ok",
                       obj |-> JDict((K_metadata :> JDict(m2)) @@ o.members)]

\* one thing the output column shows: an error, the diagnostics, a result
\* or the hint that nothing was generated yet
Shown(kind, shown_raw, shown_obj, errs) ==
    [kind |-> kind, raw |-> shown_raw, obj |-> shown_obj, errs |-> errs]

\* lines 547-550 and 553-556: the last raw output, shown if there is any
RawExpander(lr) == IF lr # None /\ lr[1] # <<>> THEN lr ELSE None

\* lines 558-561: the output column of a run that is no generate action
Redraw(lo) ==
    IF lo # None THEN <<Shown("result", None, lo, <<>>)>>
    ELSE <<Shown("info", None, None, <<>>)>>

(***************************************************************************)
(* What the model server answers in a session                              *)
(***************************************************************************)

FullDoc(meta) ==
    JDict((K_metadata :> meta)
          @@ (K_evidence_points :> JList)
          @@ (K_proposal_short :> JStr(<<"s">>))
          @@ (K_proposal_long :> JStr(<<"l">>))
          @@ (K_checklist :> JList)
          @@ (K_confirm_questions :> JList))

\* the members of f without the key k
Without(f, k) == [x \in DOMAIN f \ {k} |-> f[x]]

DocValid == FullDoc(JDict(K_generated_at :> JStr(<<"t">>)))

DocModelProvider == FullDoc(JDict(K_provider :> JStr(<<"g">>)))

DocNoMetadata == JDict(Without(DocValid.members, K_metadata))

DocMetadataString == FullDoc(JStr(<<"m">>))

DocNoChecklist == JDict(Without(DocValid.members, K_checklist))

DocEvidenceObject == JDict((K_evidence_points :> JDict(<<>>)) @@ DocValid.members)

\* the texts a model returns: objects as they are, in a fenced block after
\* some prose, cut short, and texts that hold no object
ModelTexts ==
    {_safe_json_dumps(DocValid),
     <<"o", "k", ":", "\n">> \o FencedBlock(_safe_json_dumps(DocModelProvider)),
     _safe_json_dumps(DocNoMetadata),
     _safe_json_dumps(DocMetadataString),
     _safe_json_dumps(DocNoChecklist),
     _safe_json_dumps(DocEvidenceObject),
     <<"[", "]">>,
     <<"s", "o", "r", "r", "y">>,
     <<"{", Quote, "metadata", Quote, ":">>,
     <<>>}

JsonContentType == Some(ApplicationJson)

\* the answers to the first request
SessionAnswers ==
    {TransportError,
     Response(500, JsonContentType, Body("not_json", "absent", "absent", "absent", <<>>)),
     Response(404, None, Body("not_json", "absent", "absent", "absent", <<>>))}
    \cup {Response(200, JsonContentType, Body("native", "absent", "dict", "str", t)) :
             t \in ModelTexts}

\* the answers to the fallback request
SessionFallbackAnswers ==
    {Response(200, Some(<<"t", "e", "x", "t", "/", "h", "t", "m", "l">>),
              Body("not_json", "absent", "absent", "absent", <<>>)),
     Response(200, JsonContentType,
              Body("openai", "items", "dict", "str", <<" ">> \o _safe_json_dumps(DocValid)))}

\* the ways one call of complete on the client can end
CompleteEnds(c, messages, t) ==
    IF c.class = "MockClient"
    THEN {Return(MockClient_complete(messages, t, Today))}
    ELSE {OllamaClient_complete(c, messages, t, r, r2).end :
             r \in SessionAnswers, r2 \in SessionFallbackAnswers}

(***************************************************************************)
(* Actions                                                                 *)
(***************************************************************************)

inputVars == <<job_text, candidate_text, past_examples>>

configVars == <<provider_choice, slider_temperature, ollama_base_url, ollama_model, os_environ>>

cacheVars == <<last_raw, last_obj, last_provider_name>>

runVars == <<pc, cur_client, raw, repaired, cur_obj, calls, output>>

sessionVars == <<inputVars, configVars, cacheVars, runVars>>

SessionStart ==
    /\ job_text = <<>>
    /\ candidate_text = <<>>
    /\ past_examples = <<>>
    /\ provider_choice = OllamaWord
    /\ slider_temperature = 20
    /\ ollama_base_url = DefaultBaseUrl
    /\ ollama_model = DefaultModel
    /\ os_environ = [n \in {"OLLAMA_MODEL", "OLLAMA_BASE_URL"} |-> None]
    /\ last_raw = None
    /\ last_obj = None
    /\ last_provider_name = None
    /\ pc = "idle"
    /\ cur_client = NoClient
    /\ raw = <<>>
    /\ repaired = <<>>
    /\ cur_obj = None
    /\ calls = <<>>
    /\ output = Redraw(None)

Init ==
    /\ SessionStart
    /\ phase = "session"
    /\ arg = <<>>
    /\ res = <<>>

\* a run that is no generate action: its locals are fresh and its output
\* column shows the cached result, if any
PlainRun(lo) ==
    /\ pc = "idle"
    /\ pc' = "idle"
    /\ cur_client' = NoClient
    /\ raw' = <<>>
    /\ repaired' = <<>>
    /\ cur_obj' = None
    /\ calls' = <<>>
    /\ output' = Redraw(lo)
    /\ UNCHANGED fnVars

\* lines 437-440
Sample1 ==
    /\ PlainRun(last_obj)
    /\ job_text' = SAMPLE_JOB_1
    /\ candidate_text' = SAMPLE_CANDIDATE_1
    /\ past_examples' = SAMPLE_PAST_PROPOSALS
    /\ UNCHANGED <<configVars, cacheVars>>

\* lines 441-444
Sample2 ==
    /\ PlainRun(last_obj)
    /\ job_text' = SAMPLE_JOB_2
    /\ candidate_text' = SAMPLE_CANDIDATE_2
    /\ past_examples' = SAMPLE_PAST_PROPOSALS
    /\ UNCHANGED <<configVars, cacheVars>>

\* lines 445-446
PastOnly ==
    /\ PlainRun(last_obj)
    /\ past_examples' = SAMPLE_PAST_PROPOSALS
    /\ UNCHANGED <<job_text, candidate_text, configVars, cacheVars>>

\* lines 447-452
Clear ==
    /\ PlainRun(None)
    /\ job_text' = <<>>
    /\ candidate_text' = <<>>
    /\ past_examples' = <<>>
    /\ last_raw' = None
    /\ last_obj' = None
    /\ UNCHANGED <<last_provider_name, configVars>>

\* lines 459-471: the user edits a text area
EditJob ==
    /\ PlainRun(last_obj)
    /\ \E t \in TypedJobTexts : job_text' = t
    /\ UNCHANGED <<candidate_text, past_examples, configVars, cacheVars>>

EditCandidate ==
    /\ PlainRun(last_obj)
    /\ \E t \in TypedCandidateTexts : candidate_text' = t
    /\ UNCHANGED <<job_text, past_examples, configVars, cacheVars>>

EditPast ==
    /\ PlainRun(last_obj)
    /\ \E t \in TypedPastTexts : past_examples' = t
    /\ UNCHANGED <<job_text, candidate_text, configVars, cacheVars>>

\* line 393
SelectProvider ==
    /\ PlainRun(last_obj)
    /\ \E p \in {OllamaWord, MockName} : provider_choice' = p
    /\ UNCHANGED <<inputVars, slider_temperature, ollama_base_url, ollama_model, os_environ, cacheVars>>

\* line 397
MoveSlider ==
    /\ PlainRun(last_obj)
    /\ \E t \in SliderValues : slider_temperature' = t
    /\ UNCHANGED <<inputVars, provider_choice, ollama_base_url, ollama_model, os_environ, cacheVars>>

\* line 415
EditModel ==
    /\ PlainRun(last_obj)
    /\ \E m \in TypedModels : ollama_model' = m
    /\ UNCHANGED <<inputVars, provider_choice, slider_temperature, ollama_base_url, os_environ, cacheVars>>

\* lines 405-408: either reset button
ResetBaseUrl ==
    /\ PlainRun(last_obj)
    /\ ollama_base_url' = DefaultBaseUrl
    /\ UNCHANGED <<inputVars, provider_choice, slider_temperature, ollama_model, os_environ, cacheVars>>

\* the end of a generate run in one of the two except clauses
EndInError(kind, lr) ==
    /\ pc' = "idle"
    /\ output' = <<Shown(kind, RawExpander(lr), None, <<>>)>>

\* lines 474-497: the generate button starts a cycle, which builds the
\* client and the prompt and calls complete
Generate ==
    /\ pc = "idle"
    /\ ~GenerateDisabled(job_text, candidate_text)
    /\ os_environ' = [n \in {"OLLAMA_MODEL", "OLLAMA_BASE_URL"} |->
                      IF n = "OLLAMA_MODEL" THEN Some(ollama_model) ELSE Some(ollama_base_url)]
    /\ LET built == build_client(provider_choice, os_environ')
       IN  IF built.kind = "client"
           THEN /\ cur_client' = built.client
                /\ last_provider_name' = Some(built.client.name)
                /\ calls' = <<Call(built.client,
                                   build_prompt(job_text, candidate_text, past_examples),
                                   slider_temperature)>>
                /\ pc' = "complete"
                /\ output' = <<>>
           ELSE /\ cur_client' = NoClient
                /\ calls' = <<>>
                /\ EndInError("unexpected", last_raw)
                /\ UNCHANGED last_provider_name
    /\ raw' = <<>>
    /\ repaired' = <<>>
    /\ cur_obj' = None
    /\ UNCHANGED <<inputVars, provider_choice, slider_temperature, ollama_base_url, ollama_model,
                   last_raw, last_obj, fnVars>>

\* the last call, ended
EndLastCall(how) == [calls EXCEPT ![Len(calls)].ended = how]

\* lines 497-498: the first call returns or raises
CompleteReturns ==
    /\ pc = "complete"
    /\ \E end \in CompleteEnds(cur_client, calls[1].messages, calls[1].temperature) :
           IF end.kind = "return"
           THEN /\ calls' = EndLastCall("returned")
                /\ raw' = end.text
                /\ last_raw' = Some(end.text)
                /\ pc' = "parse"
                /\ UNCHANGED output
           ELSE /\ calls' = EndLastCall("raised")
                /\ EndInError(end.kind, last_raw)
                /\ UNCHANGED <<raw, last_raw>>
    /\ UNCHANGED <<inputVars, configVars, last_obj, last_provider_name, cur_client,
                   repaired, cur_obj, fnVars>>

\* lines 500-504: the first parse; when it raises LLMError the repair call
\* is made
ParseRaw ==
    /\ pc = "parse"
    /\ LET r == parse_llm_json(raw)
       IN  IF r.kind = "ok"
           THEN /\ cur_obj' = Some(r.obj)
                /\ pc' = "post"
                /\ UNCHANGED calls
           ELSE /\ calls' = Append(calls, Call(cur_client, RepairMessages(raw, SchemaHint),
                                               RepairTemperature))
                /\ pc' = "repair"
                /\ UNCHANGED cur_obj
    /\ UNCHANGED <<inputVars, configVars, cacheVars, cur_client, raw, repaired, output, fnVars>>

\* lines 504-505: the repair call returns or raises
RepairReturns ==
    /\ pc = "repair"
    /\ \E end \in CompleteEnds(cur_client, calls[Len(calls)].messages, calls[Len(calls)].temperature) :
           IF end.kind = "return"
           THEN /\ calls' = EndLastCall("returned")
                /\ repaired' = end.text
                /\ last_raw' = Some(end.text)
                /\ pc' = "reparse"
                /\ UNCHANGED output
           ELSE /\ calls' = EndLastCall("raised")
                /\ EndInError(end.kind, last_raw)
                /\ UNCHANGED <<repaired, last_raw>>
    /\ UNCHANGED <<inputVars, configVars, last_obj, last_provider_name, cur_client,
                   raw, cur_obj, fnVars>>

\* the slip of repairing in a loop: a failed second parse asks again
ParseRepairedRetrying ==
    /\ pc = "reparse"
    /\ LET r == parse_llm_json(repaired)
       IN  IF r.kind = "ok"
           THEN /\ cur_obj' = Some(r.obj)
                /\ pc' = "post"
                /\ UNCHANGED calls
           ELSE /\ calls' = Append(calls, Call(cur_client, RepairMessages(repaired, SchemaHint),
                                               RepairTemperature))
                /\ pc' = "repair"
                /\ UNCHANGED cur_obj
    /\ UNCHANGED <<inputVars, configVars, cacheVars, cur_client, raw, repaired, output, fnVars>>

\* line 506 and lines 545-550: the second parse; its LLMError ends the cycle
ParseRepaired ==
    /\ pc = "reparse"
    /\ LET r == parse_llm_json(repaired)
       IN  IF r.kind = "ok"
           THEN /\ cur_obj' = Some(r.obj)
                /\ pc' = "post"
                /\ UNCHANGED output
           ELSE /\ EndInError("LLMError", last_raw)
                /\ UNCHANGED cur_obj
    /\ UNCHANGED <<inputVars, configVars, cacheVars, cur_client, raw, repaired, calls, fnVars>>

\* the slip of caching before looking at the diagnostics
FinishCachingAlways ==
    /\ pc = "post"
    /\ LET done == PostProcess(cur_obj[1], last_provider_name[1], NowIso)
           errs == validate_result(done.obj)
       IN  IF done.kind # "ok"
           THEN /\ EndInError("unexpected", last_raw)
                /\ UNCHANGED <<cur_obj, last_obj>>
           ELSE /\ cur_obj' = Some(done.obj)
                /\ pc' = "idle"
                /\ last_obj' = Some(done.obj)
                /\ output' = IF errs # <<>>
                            THEN <<Shown("diagnostics", Some(raw), Some(done.obj), errs)>>
                            ELSE <<Shown("result", None, Some(done.obj), <<>>)>>
    /\ UNCHANGED <<inputVars, configVars, last_raw, last_provider_name, cur_client,
                   raw, repaired, calls, fnVars>>

\* lines 507-522 and 551-556: post-processing, validation, and the cache
\* and rendering of a result without diagnostics
Finish ==
    /\ pc = "post"
    /\ LET done == PostProcess(cur_obj[1], last_provider_name[1], NowIso)
           errs == validate_result(done.obj)
       IN  IF done.kind # "ok"
           THEN /\ EndInError("unexpected", last_raw)
                /\ UNCHANGED <<cur_obj, last_obj>>
           ELSE /\ cur_obj' = Some(done.obj)
                /\ pc' = "idle"
                /\ IF errs # <<>>
                   THEN /\ output' = <<Shown("diagnostics", Some(raw), Some(done.obj), errs)>>
                        /\ UNCHANGED last_obj
                   ELSE /\ last_obj' = Some(done.obj)
                        /\ output' = <<Shown("result", None, Some(done.obj), <<>>)>>
    /\ UNCHANGED <<inputVars, configVars, last_raw, last_provider_name, cur_client,
                   raw, repaired, calls, fnVars>>

Next ==
    \/ Sample1
    \/ Sample2
    \/ PastOnly
    \/ Clear
    \/ EditJob
    \/ EditCandidate
    \/ EditPast
    \/ SelectProvider
    \/ MoveSlider
    \/ EditModel
    \/ ResetBaseUrl
    \/ Generate
    \/ CompleteReturns
    \/ ParseRaw
    \/ RepairReturns
    \/ ParseRepaired
    \/ Finish

Spec == Init /\ [][Next]_vars

(***************************************************************************)
(* Properties of the session                                               *)
(***************************************************************************)

\* the run is inside a generate cycle
InCycle == pc # "idle"

\* the output column shows exactly one error of the kind
ShowsOne(kind) == Len(output) = 1 /\ output[1].kind = kind

\* C1: a generate cycle calls complete once for the prompt and at most once
\* more for the repair, so never a third time; the repair call exists only
\* when the first call has returned and the first parse of the raw text
\* raised LLMError; and a cycle whose repaired text does not parse either
\* has ended with exactly one LLMError shown.
C1_OneRepairAtMost ==
    /\ Len(calls) <= 2
    /\ InCycle => Len(calls) >= 1
    /\ calls # <<>> =>
           /\ calls[1].messages = build_prompt(job_text, candidate_text, past_examples)
           /\ calls[1].temperature = slider_temperature
           /\ pc \in {"parse", "repair", "reparse", "post"} => calls[1].ended = "returned"
    /\ Len(calls) = 2 =>
           /\ calls[1].ended = "returned"
           /\ parse_llm_json(raw).kind = "LLMError"
           /\ calls[2].messages = RepairMessages(raw, SchemaHint)
    /\ pc = "post" /\ Len(calls) = 1 => parse_llm_json(raw).kind = "ok"
    /\ (pc \in {"idle", "post"} /\ Len(calls) = 2 /\ calls[2].ended = "returned") =>
           IF parse_llm_json(repaired).kind = "LLMError"
           THEN pc = "idle" /\ ShowsOne("LLMError")
           ELSE pc = "post" \/ ~ShowsOne("LLMError")

\* a cycle has ended in the LLMError of the second parse
C1_Witness ==
    /\ pc = "idle"
    /\ Len(calls) = 2
    /\ calls[2].ended = "returned"
    /\ parse_llm_json(raw).kind = "LLMError"
    /\ parse_llm_json(repaired).kind = "LLMError"
    /\ ShowsOne("LLMError")

FailureKinds == {"LLMError", "unexpected", "diagnostics"}

C3_ClearEmptiesCache ==
    [][Clear =>
           /\ job_text' = <<>>
           /\ candidate_text' = <<>>
           /\ past_examples' = <<>>
           /\ last_raw' = None
           /\ last_obj' = None
           /\ last_provider_name' = None
      ]_vars

\* C4: a generate cycle, and with it any call of complete, exists only
\* while the job text and the candidate text both hold a character that is
\* no whitespace; the past proposals may be empty.
C4_GenerateNeedsBothTexts ==
    (InCycle \/ calls # <<>>) =>
        /\ \E i \in DOMAIN job_text : job_text[i] \notin Whitespace
        /\ \E i \in DOMAIN candidate_text : candidate_text[i] \notin Whitespace

\* a call of complete is pending in a cycle started without past proposals
C4_Witness ==
    /\ pc = "complete"
    /\ Len(calls) = 1
    /\ calls[1].ended = "pending"
    /\ past_examples = <<>>


\* the post-processing of the parsed object of this cycle
PostProcessed == PostProcess(cur_obj[1], last_provider_name[1], NowIso)

\* C12: with the mock provider selected, a generate cycle makes exactly one
\* call of complete and never a repair call: the text of the mock parses at
\* the first attempt, its object has no diagnostics after post-processing,
\* and the cycle ends with that object cached as the last result and
\* rendered.
C12_MockNeverRepairs ==
    /\ (InCycle /\ provider_choice = MockName) => cur_client = MockClient
    /\ cur_client = MockClient =>
           /\ Len(calls) = 1
           /\ pc \in {"complete", "parse", "post", "idle"}
           /\ pc = "parse" => parse_llm_json(raw).kind = "ok"
           /\ pc = "post" =>
                  /\ PostProcessed.kind = "ok"
                  /\ validate_result(PostProcessed.obj) = <<>>
           /\ pc = "idle" =>
                  /\ calls[1].ended = "returned"
                  /\ last_obj # None
                  /\ last_obj = cur_obj
                  /\ validate_result(last_obj[1]) = <<>>
                  /\ output = <<Shown("result", None, last_obj, <<>>)>>

\* a cycle with the mock has ended for a job text full of quotes, fences
\* and braces
C12_Witness ==
    /\ pc = "idle"
    /\ cur_client = MockClient
    /\ job_text = JobTextOfMarks
    /\ Len(calls) = 1
    /\ last_obj = cur_obj
    /\ last_obj # None

\* the metadata member of the object the run holds
MetadataOf(o) == o[1].members[K_metadata]

\* the model gave a generated_at in a metadata object
GaveGeneratedAt(o) ==
    /\ o[1].type = "dict"
    /\ HasKey(o[1], K_metadata)
    /\ MetadataOf(o).type = "dict"
    /\ HasKey(MetadataOf(o), K_generated_at)

\* C13: after the post-processing of any parsed response, whatever it held
\* for metadata (nothing, an object with or without provider and
\* generated_at, or a value that is no object), the result has a metadata
\* object whose provider is the display name of the backend of this cycle
\* and whose generated_at is the value the model gave, or the current
\* timestamp when it gave none.
C13_MetadataAfterPostProcessing ==
    [][pc = "post" =>
           /\ cur_obj' # None
           /\ cur_obj'[1].type = "dict"
           /\ HasKey(cur_obj'[1], K_metadata)
           /\ MetadataOf(cur_obj').type = "dict"
           /\ HasKey(MetadataOf(cur_obj'), K_provider)
           /\ MetadataOf(cur_obj').members[K_provider] = JStr(cur_client.name)
           /\ HasKey(MetadataOf(cur_obj'), K_generated_at)
           /\ MetadataOf(cur_obj').members[K_generated_at] =
                  IF GaveGeneratedAt(cur_obj)
                  THEN MetadataOf(cur_obj).members[K_generated_at]
                  ELSE JStr(NowIso)
      ]_vars

\* the user message of a call
UserMessage(call) == call.messages[2]

\* C14: the repair call goes to the backend that returned the raw text
\* that did not parse, at temperature 0 whatever the slider says; its user
\* message carries that raw text; and from the return of the repair call
\* on, so before the second parse, last_raw is the repaired text.
C14_RepairCall ==
    Len(calls) = 2 =>
        /\ calls[2].client = calls[1].client
        /\ calls[2].client = cur_client
        /\ calls[2].temperature = 0
        /\ UserMessage(calls[2]).role = "user"
        /\ Contains(UserMessage(calls[2]).content, raw)
        /\ calls[2].ended = "pending" => pc = "repair" /\ last_raw = Some(raw)
        /\ calls[2].ended = "returned" =>
               pc \in {"reparse", "post", "idle"} /\ last_raw = Some(repaired)
        /\ pc = "reparse" => calls[2].ended = "returned"

\* the repaired text waits for the second parse, in a session whose slider
\* stands at 1.0
C14_Witness ==
    /\ pc = "reparse"
    /\ Len(calls) = 2
    /\ slider_temperature = 100
    /\ calls[1].temperature = 100
    /\ raw # <<>>
    /\ repaired # raw
    /\ last_raw = Some(repaired)

\* the object has the six keys, the three lists, and no diagnostics
WellFormed(o) ==
    /\ o.type = "dict"
    /\ \A i \in DOMAIN RequiredKeys : HasKey(o, RequiredKeys[i])
    /\ o.members[K_evidence_points].type = "list"
    /\ o.members[K_checklist].type = "list"
    /\ o.members[K_confirm_questions].type = "list"
    /\ validate_result(o) = <<>>

\* C15: after every step the cached result, when there is one, has the six
\* required keys, has evidence_points, checklist and confirm_questions as
\* lists and has no diagnostics; and a step that caches a result caches one
\* whose metadata.provider is the display name of the backend of its cycle.
C15_CachedResultWellFormed ==
    [][/\ last_obj' # None => WellFormed(last_obj'[1])
       /\ (last_obj' # None /\ last_obj' # last_obj) =>
              /\ MetadataOf(last_obj').type = "dict"
              /\ MetadataOf(last_obj').members[K_provider] = JStr(cur_client.name)
              /\ cur_client.name = last_provider_name[1]
      ]_vars

\* a result cached by one backend is kept while the last display name is
\* that of another backend, whose cycle failed
C15_Witness ==
    /\ pc = "idle"
    /\ last_obj # None
    /\ last_provider_name # None
    /\ MetadataOf(last_obj).members[K_provider] # JStr(last_provider_name[1])
    /\ job_text # <<>>

(***************************************************************************)
(* Specification for _extract_json: the input is any text made of a few    *)
(* pieces; the action extracts from the text and from its fenced wrapping. *)
(***************************************************************************)

MaxPieces == 5

ExtractPieces == {<<"{">>, <<"}">>, Fence, FenceJsonUpper, <<" ">>, <<"a">>}

RECURSIVE TextsOf(_, _)
\* every concatenation of at most n pieces
TextsOf(pieces, n) ==
    IF n = 0 THEN {<<>>}
    ELSE LET shorter == TextsOf(pieces, n - 1)
         IN  shorter \cup {p \o t : p \in pieces, t \in shorter}

InitExtract ==
    /\ SessionStart
    /\ phase = "input"
    /\ arg \in TextsOf(ExtractPieces, MaxPieces)
    /\ res = <<>>

ExtractJson ==
    /\ UNCHANGED sessionVars
    /\ phase = "input"
    /\ phase' = "done"
    /\ res' = [plain |-> _extract_json(arg), fenced |-> _extract_json(FencedBlock(arg))]
    /\ UNCHANGED arg

NextExtract == ExtractJson

SpecExtract == InitExtract /\ [][NextExtract]_vars

\* C7: for every text T that starts with "{" and ends with "}", extraction
\* returns T unchanged, and extraction of T wrapped in a json fenced block
\* returns T as well, also when T contains braces or fence markers inside.
C7_ExtractRoundTrip ==
    (phase = "done" /\ IsObjectText(arg)) =>
        (res.plain = arg /\ Strip(res.fenced) = Strip(arg))

(***************************************************************************)
(* Specification for quote rendering: a quote is two runs of letters with  *)
(* optional whitespace before, between and after, of total length around   *)
(* the limit.                                                              *)
(***************************************************************************)

\* how far the letters of a quote go beyond (and stay below) the limit
MaxOver == 2

QuotePads == {<<>>, <<" ">>, <<" ", " ">>, <<"\n">>, <<"\t", " ">>}

QuoteInputs ==
    {lead \o Repeat(<<"a">>, n) \o gap \o Repeat(<<"b">>, total - n) \o trail :
        lead \in QuotePads, gap \in QuotePads, trail \in QuotePads,
        n \in {0, 30},
        total \in (CompactLimit - MaxOver - 1)..(CompactLimit + MaxOver)}

InitCompact ==
    /\ SessionStart
    /\ phase = "input"
    /\ arg \in QuoteInputs
    /\ res = <<>>

RenderOneQuote ==
    /\ UNCHANGED sessionVars
    /\ phase = "input"
    /\ phase' = "done"
    /\ res' = RenderQuote(arg)
    /\ UNCHANGED arg

NextCompact == RenderOneQuote

SpecCompact == InitCompact /\ [][NextCompact]_vars

HasWhitespace(s) == \E i \in 1..Len(s) : s[i] \in Whitespace

\* the quote as shown needs no trimming and no collapsing
IsNormalised(s) ==
    /\ s = <<>> \/ (s[1] \notin Whitespace /\ s[Len(s)] \notin Whitespace)
    /\ \A i \in 1..Len(s) : s[i] \in Whitespace => s[i] = " "
    /\ \A i \in 1..(Len(s) - 1) : ~(s[i] = " " /\ s[i + 1] = " ")

\* C8 as stated: every quote longer than 60 characters is shown as exactly
\* 59 characters of its content followed by one ellipsis, every quote of
\* exactly 60 characters is shown unchanged, and no shown quote is longer
\* than 60 characters.
C8_QuoteTruncationAsStated ==
    phase = "done" =>
        /\ Len(arg) > CompactLimit => res = Take(arg, CompactLimit - 1) \o <<Ellipsis>>
        /\ Len(arg) = CompactLimit => res = arg
        /\ Len(res) <= CompactLimit

\* C8 amended: the quote is first trimmed and its runs of whitespace are
\* collapsed to one space; a normalised quote longer than 60 characters is
\* shown as its first 59 characters followed by one ellipsis, a normalised
\* quote of at most 60 characters is shown as it is (so a quote of exactly
\* 60 characters with nothing to trim or collapse is shown unchanged), and
\* no shown quote is longer than 60 characters.
C8_QuoteTruncation ==
    phase = "done" =>
        LET t == CollapseWhitespace(Strip(arg))
        IN  /\ IsNormalised(t)
            /\ Len(t) > CompactLimit => res = Take(t, CompactLimit - 1) \o <<Ellipsis>>
            /\ Len(t) <= CompactLimit => res = t
            /\ (IsNormalised(arg) /\ Len(arg) = CompactLimit) => res = arg
            /\ (IsNormalised(arg) /\ Len(arg) > CompactLimit) =>
                   res = Take(arg, CompactLimit - 1) \o <<Ellipsis>>
            /\ Len(res) <= CompactLimit

\* a quote with whitespace to collapse that is still too long and is cut
C8_Witness ==
    /\ phase = "done"
    /\ HasWhitespace(arg)
    /\ ~IsNormalised(arg)
    /\ Len(CollapseWhitespace(Strip(arg))) > CompactLimit
    /\ res[Len(res)] = Ellipsis

(***************************************************************************)
(* Specification for validate_result: the input is any object over the six *)
(* keys and one more, each key absent or bound to a value of some type.    *)
(***************************************************************************)

ValidateKeys ==
    {K_metadata, K_evidence_points, K_proposal_short, K_proposal_long,
     K_checklist, K_confirm_questions, K_debug}

ValidateValues == {JList, JDict(<<>>), JStr(<<"a">>), JNull}

ValidateInputs ==
    {JDict(f) : f \in UNION {[S -> ValidateValues] : S \in SUBSET ValidateKeys}}

InitValidate ==
    /\ SessionStart
    /\ phase = "input"
    /\ arg \in ValidateInputs
    /\ res = <<>>

Validate ==
    /\ UNCHANGED sessionVars
    /\ phase = "input"
    /\ phase' = "done"
    /\ res' = validate_result(arg)
    /\ UNCHANGED arg

NextValidate == Validate

SpecValidate == InitValidate /\ [][NextValidate]_vars

ListKeys == {K_evidence_points, K_checklist, K_confirm_questions}

RequiredKeySet == {RequiredKeys[i] : i \in 1..Len(RequiredKeys)}

\* how often a diagnostic occurs in the returned sequence
CountOf(errs, d) == Cardinality({i \in 1..Len(errs) : errs[i] = d})

\* C9: validate returns exactly one missing-key diagnostic per absent key
\* among the six required keys, exactly one shape diagnostic per key among
\* evidence_points, checklist, confirm_questions that is present but not a
\* list, and nothing else; the result is empty exactly when all six keys are
\* present and those three are lists.
C9_ValidateDiagnostics ==
    phase = "done" =>
        /\ \A k \in RequiredKeySet :
               CountOf(res, MissingKey(k)) = (IF HasKey(arg, k) THEN 0 ELSE 1)
        /\ \A k \in ListKeys :
               CountOf(res, NotAList(k)) =
                   (IF HasKey(arg, k) /\ arg.members[k].type # "list" THEN 1 ELSE 0)
        /\ \A i \in 1..Len(res) :
               \/ \E k \in RequiredKeySet : res[i] = MissingKey(k)
               \/ \E k \in ListKeys : res[i] = NotAList(k)
        /\ res = <<>> <=>
               /\ \A k \in RequiredKeySet : HasKey(arg, k)
               /\ \A k \in ListKeys : arg.members[k].type = "list"

\* an object with an absent key and a present checklist that is no list
C9_Witness ==
    /\ phase = "done"
    /\ ~HasKey(arg, K_metadata)
    /\ HasKey(arg, K_checklist) /\ arg.members[K_checklist].type = "dict"
    /\ Len(res) = 2

(***************************************************************************)
(* Specification for the mock: any short message sequence, two             *)
(* temperatures and a date; the action makes the two calls.                *)
(***************************************************************************)

MaxMessages == 2

\* temperatures in hundredths: the slider runs from 0.0 to 1.0
Temperatures == {0, 20, 100}

Dates == {<<"2026-11-03">>, <<"2026-11-04">>}

MockContents ==
    {<<"a">>,
     <<" ", "a", " ", "\n", "\n", "\t", "b", "\r", "\n">>,
     <<"a", "\n", "b", " ", "c", "\n", "d", "\n", "e">>,
     <<"q", Quote, "\n">>,
     Repeat(<<"x">>, HintLimit - 2)}

MockMessages == {ChatMessage(r, c) : r \in Roles, c \in MockContents}

MockMessageLists == UNION {[1..n -> MockMessages] : n \in 1..MaxMessages}

InitMock ==
    /\ SessionStart
    /\ phase = "input"
    /\ arg \in [messages : MockMessageLists, t1 : {20}, t2 : Temperatures, now : Dates]
    /\ res = <<>>

MockCompleteTwice ==
    /\ UNCHANGED sessionVars
    /\ phase = "input"
    /\ phase' = "done"
    /\ res' = [first  |-> MockClient_complete(arg.messages, arg.t1, arg.now),
               second |-> MockClient_complete(arg.messages, arg.t2, arg.now)]
    /\ UNCHANGED arg

NextMock == MockCompleteTwice

SpecMock == InitMock /\ [][NextMock]_vars

RemoveLineBreaks(s) == SelectSeq(s, LAMBDA c : c \notin LineBreaks)

\* the hint field embedded in a text the mock returned
EmbeddedHint(text) == JsonLoads(text).val.members[K_debug].members[K_job_hint].text

\* the lines of the user contents that are not blank, each trimmed
RECURSIVE NonBlankLines(_)
NonBlankLines(s) ==
    IF s = <<>> THEN <<>>
    ELSE LET breaks == {i \in 1..Len(s) : s[i] \in LineBreaks}
             cut    == IF breaks = {} THEN Len(s) + 1 ELSE SetMin(breaks)
             line   == Strip(SubSeq(s, 1, cut - 1))
         IN  (IF line = <<>> THEN <<>> ELSE <<line>>) \o NonBlankLines(Drop(s, cut))

CaseVariants(word) ==
    {v \in [1..Len(word) -> {LowerLetters[i] : i \in 1..26} \cup {UpperLetters[i] : i \in 1..26}] :
        \A k \in 1..Len(word) :
            \E i \in 1..26 : word[k] = LowerLetters[i] /\ v[k] \in {LowerLetters[i], UpperLetters[i]}}

ProviderWords ==
    {MockName, <<"M", "O", "C", "K">>, <<"M", "o", "c", "K">>,
     OllamaWord, <<"O", "L", "L", "A", "M", "A">>, <<"o", "L", "l", "a", "M", "a">>,
     <<>>, <<"u", "n", "k", "n", "o", "w", "n">>, <<"m", "o", " ", "c", "k">>,
     <<"m", "o", "c", "k", "s">>, <<"l", "l", "a", "m", "a">>}

ProviderPads == {<<>>, <<" ">>, <<"\n", "\t">>}

ProviderInputs == {l \o w \o r : l \in ProviderPads, w \in ProviderWords, r \in ProviderPads}

ModelValues ==
    {None, Some(<<>>), Some(<<" ">>), Some(<<"\t", "\n">>),
     Some(<<"m", "1">>), Some(<<" ", "m", "1">>), Some(DefaultModel)}

BaseUrlValues ==
    {None, Some(<<>>), Some(<<" ", " ">>),
     Some(<<"h", "t", "t", "p", ":", "/", "/", "h", ":", "1">>),
     Some(<<"h", "t", "t", "p", ":", "/", "/", "h", ":", "1", "/">>)}

Environments == [{"OLLAMA_MODEL"} -> ModelValues] \X [{"OLLAMA_BASE_URL"} -> BaseUrlValues]

InitFactory ==
    /\ SessionStart
    /\ phase = "input"
    /\ arg \in [provider : ProviderInputs,
                environ : {e[1] @@ e[2] : e \in Environments}]
    /\ res = <<>>

BuildClient ==
    /\ UNCHANGED sessionVars
    /\ phase = "input"
    /\ phase' = "done"
    /\ res' = build_client(arg.provider, arg.environ)
    /\ UNCHANGED arg

NextFactory == BuildClient

SpecFactory == InitFactory /\ [][NextFactory]_vars

\* the value is unset, empty or made of whitespace only
IsBlankValue(v) == v = None \/ \A i \in 1..Len(v[1]) : v[1][i] \in Whitespace

\* the text without the whitespace at its two ends, character by character
Trimmed(s) ==
    LET solid == {i \in 1..Len(s) : s[i] \notin Whitespace}
    IN  [k \in 1..(IF solid = {} THEN 0 ELSE SetMax(solid) - SetMin(solid) + 1) |->
            s[SetMin(solid) + k - 1]]

\* C10: after trimming and lowercasing the provider name, the factory
\* returns a backend named exactly mock for mock, a backend named
\* ollama:<model> for ollama, where an unset, empty or whitespace-only model
\* or base URL value falls back to llama3.1 / http://localhost:11434, and
\* for every other name fails with an invalid-input error that is no
\* LLMError and builds no backend.
C10_Factory ==
    phase = "done" =>
        LET word  == Trimmed(arg.provider)
            model == arg.environ["OLLAMA_MODEL"]
            base  == arg.environ["OLLAMA_BASE_URL"]
        IN  /\ word \in CaseVariants(MockName) =>
                   /\ res.kind = "client"
                   /\ res.client.class = "MockClient"
                   /\ res.client.name = <<"m", "o", "c", "k">>
            /\ word \in CaseVariants(OllamaWord) =>
                   /\ res.kind = "client"
                   /\ res.client.class = "OllamaClient"
                   /\ res.client.name = <<"o", "l", "l", "a", "m", "a", ":">> \o res.client.model
                   /\ IsBlankValue(model) => res.client.model = DefaultModel
                   /\ ~IsBlankValue(model) => res.client.model = model[1]
                   /\ IsBlankValue(base) => res.client.base_url = DefaultBaseUrl
                   /\ ~IsBlankValue(base) => StartsWith(base[1], res.client.base_url)
            /\ word \notin CaseVariants(MockName) \cup CaseVariants(OllamaWord) =>
                   /\ res.kind = "ValueError"
                   /\ res.kind # "LLMError"
                   /\ res.client = NoClient

\* the name OLLAMA with whitespace around it, in an environment whose model
\* is whitespace only
C10_Witness ==
    /\ phase = "done"
    /\ arg.provider = <<" ", "O", "L", "L", "A", "M", "A", "\n", "\t">>
    /\ arg.environ["OLLAMA_MODEL"] = Some(<<"\t", "\n">>)
    /\ res.client.name = <<"o", "l", "l", "a", "m", "a", ":", "l", "l", "a", "m", "a", "3", ".", "1">>

(***************************************************************************)
(* Specification for OllamaClient.complete: any two answers of the server. *)
(***************************************************************************)

BodyTexts == {<<>>, <<" ", "{", "}", "\n">>}

Bodies ==
    {Body("not_json", "absent", "absent", "absent", <<>>),
     Body("list", "absent", "absent", "absent", <<>>)}
    \cup {Body("native", "absent", m, "absent", <<>>) : m \in {"absent", "null", "str"}}
    \cup {Body("native", "absent", "dict", c, <<>>) : c \in {"absent", "null", "num"}}
    \cup {Body("native", "absent", "dict", "str", t) : t \in BodyTexts}
    \cup {Body("openai", c, "absent", "absent", <<>>) : c \in {"absent", "null", "empty"}}
    \cup {Body("openai", "items", m, "absent", <<>>) : m \in {"absent", "null", "str"}}
    \cup {Body("openai", "items", "dict", c, <<>>) : c \in {"absent", "null", "num"}}
    \cup {Body("openai", "items", "dict", "str", t) : t \in BodyTexts}

ContentTypes ==
    {None, Some(ApplicationJson),
     Some(<<"A", "p", "p", "l", "i", "c", "a", "t", "i", "o", "n", "/", "J", "S", "O", "N", ";", " ", "c", "h", "a", "r", "s", "e", "t", "=", "u", "t", "f", "-", "8">>),
     Some(<<"t", "e", "x", "t", "/", "h", "t", "m", "l">>)}

Statuses == {200, 204, 300, 404, 500}

Responses ==
    {TransportError}
    \cup {Response(st, ct, b) : st \in Statuses, ct \in ContentTypes, b \in Bodies}

CompleteClient == OllamaClient(DefaultModel, DefaultBaseUrl \o <<"/">>)

CompleteMessages == <<ChatMessage("system", <<"s">>), ChatMessage("user", <<"u">>)>>

InitComplete ==
    /\ SessionStart
    /\ phase = "input"
    /\ arg \in [r : Responses, r2 : Responses, temperature : {0, 20}]
    /\ res = <<>>

Complete ==
    /\ UNCHANGED sessionVars
    /\ phase = "input"
    /\ phase' = "done"
    /\ res' = OllamaClient_complete(CompleteClient, CompleteMessages, arg.temperature, arg.r, arg.r2)
    /\ UNCHANGED arg

NextComplete == Complete

SpecComplete == InitComplete /\ [][NextComplete]_vars

\* the answer is a 2xx success with a JSON content type and a body of the shape
\* the path expects, or with members missing that the code defaults
AnswersWell(r, path) ==
    /\ ~r.raises
    /\ r.status \in {200, 204}
    /\ r.content_type # None
    /\ Contains(Lower(r.content_type[1]), ApplicationJson)
    /\ r.body.format \in {"native", "openai"}
    /\ LET m == IF path = "native"
                THEN (IF r.body.format = "native" THEN r.body.message ELSE "absent")
                ELSE (IF r.body.format = "openai" /\ r.body.choices = "items"
                      THEN r.body.message ELSE "absent")
       IN  \/ m \in {"absent", "null"}
           \/ m = "dict" /\ r.body.content \in {"absent", "str"}
           \/ m = "dict" /\ r.body.content = "null" /\ path = "openai"

\* C5: one call of complete sends the POST to /api/chat first and the POST
\* to /v1/chat/completions if and only if the first answer had status 404,
\* so at most two requests; on every failure on either path (transport
\* exception, error status, content type that is no JSON, body of another
\* shape) it raises LLMError, and nothing else escapes it.
C5_CompleteRequestsAndErrors ==
    phase = "done" =>
        /\ Len(res.requests) \in {1, 2}
        /\ res.requests[1].url = DefaultBaseUrl \o ApiChatPath
        /\ Len(res.requests) = 2 <=> (~arg.r.raises /\ arg.r.status = 404)
        /\ Len(res.requests) = 2 => res.requests[2].url = DefaultBaseUrl \o V1ChatPath
        /\ \A i \in 1..Len(res.requests) : res.requests[i].method = "POST"
        /\ res.end.kind \in {"return", "LLMError"}
        /\ res.end.kind = "return" <=>
               \/ AnswersWell(arg.r, "native")
               \/ ~arg.r.raises /\ arg.r.status = 404 /\ AnswersWell(arg.r2, "openai")


(***************************************************************************)
(* Specification for try_ollama_tags: a base URL and any two answers of    *)
(* the server.                                                             *)
(***************************************************************************)

\* the longest list of names the server sends
MaxNames == 9

NameEntry(i) == Entry("dict", Some(<<"m", ToString(i)>>))

Listings ==
    {NoListing, Listing("null", <<>>), Listing("num", <<>>), Listing("list", <<>>),
     Listing("list", <<NameEntry(1)>>),
     Listing("list", <<Entry("dict", Some(<<>>)), NameEntry(1), Entry("dict", None), NameEntry(2)>>),
     Listing("list", <<NameEntry(1), Entry("str", None)>>),
     Listing("list", [i \in 1..MaxNames |-> NameEntry(i)])}

HtmlText == <<"<", "p", ">", "\n", "n", "o", "\n">>

TagsBodies ==
    {TagsBody("not_json", NoListing, NoListing, HtmlText),
     TagsBody("not_json", NoListing, NoListing, <<>>),
     TagsBody("list", NoListing, NoListing, <<"[", "]">>)}
    \cup {TagsBody("dict", l, NoListing, <<"{", "}">>) : l \in Listings}
    \cup {TagsBody("dict", NoListing, l, <<"{", "}">>) : l \in Listings}

TagsStatuses == {200, 300, 404, 500}

TagsResponses ==
    {TagsTransportError}
    \cup {Response(st, ct, b) : st \in TagsStatuses, ct \in ContentTypes, b \in TagsBodies}

TagsBaseUrls == {DefaultBaseUrl, DefaultBaseUrl \o <<"/", "/">>, <<"l", "o", "c", "a", "l">>}

InitTags ==
    /\ SessionStart
    /\ phase = "input"
    /\ arg \in [base_url : TagsBaseUrls, r : TagsResponses, r2 : TagsResponses]
    /\ res = <<>>

CheckConnection ==
    /\ UNCHANGED sessionVars
    /\ phase = "input"
    /\ phase' = "done"
    /\ res' = try_ollama_tags(arg.base_url, arg.r, arg.r2)
    /\ UNCHANGED arg

NextTags == CheckConnection

SpecTags == InitTags /\ [][NextTags]_vars

\* the probe was answered with a 2xx status and a JSON content type
ProbeSucceeded(r) ==
    /\ ~r.raises
    /\ r.status >= 200
    /\ r.status < 300
    /\ ~NotJsonContentType(r.content_type)

\* a sequence of characters
IsText(s) == DOMAIN s = 1..Len(s)

\* C11: the connectivity self-test never raises: for every base URL and
\* every outcome of its probes it returns a pair of a boolean and a
\* diagnostic string, and it returns success only after a probe answered
\* with a success status and a JSON content type.
C11_SelfTestNeverRaises ==
    phase = "done" =>
        /\ res.end.kind = "return"
        /\ res.end.ok \in BOOLEAN
        /\ IsText(res.end.msg)
        /\ res.end.ok =>
               \/ Len(res.requests) = 1 /\ ProbeSucceeded(arg.r)
               \/ Len(res.requests) = 2 /\ ProbeSucceeded(arg.r2)

====
